---------------------------- MODULE Spec2Model ----------------------------
(***************************************************************************)
(* kdr-aus/fibheap: a lazy mergeable min-heap in two representations.      *)
(*   v1 (src/src/v1.rs): roots in a LinkedList, the minimum at the front.  *)
(*   v2 (src/src/v2.rs): roots in a Vec plus a len field, minimum last.    *)
(* Both heaps are driven by the same calls, so that each state holds the   *)
(* v1 heap and the v2 heap after the same history.                         *)
(*                                                                         *)
(* A Tree<T> is the record [node |-> value, children |-> sequence of       *)
(* trees].  An Option<X> is a sequence: <<>> is None, <<x>> is Some(x).    *)
(* A LinkedList and a Vec are sequences: index 1 is the front, index Len   *)
(* is the back (Vec index i of the source is index i + 1 here).            *)
(***************************************************************************)
EXTENDS Integers, Sequences, FiniteSets, TLC

\* ------------------------------------------------------------------ bounds
\* Elements are the integers 0 .. MaxVal (T = u32 in the tests).
MaxVal == 2
\* Calls of push in one run (a push inside extend counts).
MaxPushes == 5
\* Longest sequence handed to extend / from_iter.
MaxExtend == 2
\* Calls of push in one run of the step-by-step specification: with six, a
\* pop consolidates trees that already have children.
MaxStepPushes == 6
\* Elements held at once in the counted push/pop sequences: with five held
\* and six pushes, a pop hands trees of different degrees to rebalance and
\* rebalance merges them.
MaxHeld == 5

Values == 0 .. MaxVal

\* ------------------------------------------------------------------ Option
None == <<>>
Some(x) == <<x>>

\* ------------------------------------------------------------------ Tree<T>
\* Tree::new
TreeNew(root) == [node |-> root, children |-> <<>>]

\* Tree::root
Root(t) == t.node

\* Tree::degree
Degree(t) == Len(t.children)

\* Tree::count_nodes (v1): 1 + the sum over the children
RECURSIVE TreeCountNodes(_)
TreeCountNodes(t) ==
    LET RECURSIVE SumFrom(_)
        SumFrom(i) == IF i > Len(t.children) THEN 0
                      ELSE TreeCountNodes(t.children[i]) + SumFrom(i + 1)
    IN 1 + SumFrom(1)

\* count_nodes (v1): the sum over the list of roots
RECURSIVE CountNodes(_)
CountNodes(xs) ==
    IF xs = <<>> THEN 0 ELSE TreeCountNodes(Head(xs)) + CountNodes(Tail(xs))

\* usize::ilog2 for n >= 1 (the callers decide what n = 0 does: it panics)
RECURSIVE ILog2(_)
ILog2(n) == IF n <= 1 THEN 0 ELSE 1 + ILog2(n \div 2)

\* ------------------------------------------------------------ consolidation
\* The state of one rebalance call: the bucket array buf (one Option<Tree>
\* per degree, index degree + 1), the number of merges done so far, and
\* whether the call panicked ("none" when it did not).
RebState(cap) == [buf |-> [i \in 1 .. cap |-> None], merges |-> 0, panic |-> "none"]

\* The child put before the children the tree has: children.insert(0, child)
AddChildFront(tree, child) == [tree EXCEPT !.children = <<child>> \o @]

\* tree.children.push(child)
AddChild(tree, child) == [tree EXCEPT !.children = Append(@, child)]

\* Merge with the second arm returning tree_b without the push: the
\* incoming tree is dropped
MergeDropsLoser(tree, tree_b) ==
    IF Root(tree) <= Root(tree_b) THEN AddChild(tree, tree_b)
    ELSE tree_b

\* Merge with the comparison turned round: the greater root keeps the root
MergeGreaterOnTop(tree, tree_b) ==
    IF Root(tree) >= Root(tree_b) THEN AddChild(tree, tree_b)
    ELSE AddChild(tree_b, tree)

\* Merge with `<` for `<=`: on a tie the bucket's tree keeps the root
MergeTieKeepsBucket(tree, tree_b) ==
    IF Root(tree) < Root(tree_b) THEN AddChild(tree, tree_b)
    ELSE AddChild(tree_b, tree)

\* One merge, the two Some arms of the match: the incoming tree keeps the
\* root when tree.root() <= tree_b.root(), else the bucket's tree does.
Merge(tree, tree_b) ==
    IF Root(tree) <= Root(tree_b) THEN AddChild(tree, tree_b)
    ELSE AddChild(tree_b, tree)

\* Place without the merge: the tree is stored over whatever the bucket held
PlaceOverwrites(tree, st) ==
    LET degree == Degree(tree)
        cap    == Len(st.buf)
    IN IF degree >= cap THEN [st EXCEPT !.panic = "degree"]
       ELSE [st EXCEPT !.buf[degree + 1] = Some(tree)]

\* Place with the loop left after one merge: the merged tree is stored in
\* the next bucket without a look at what that bucket holds
PlaceMergesOnce(tree, st) ==
    LET degree == Degree(tree)
        cap    == Len(st.buf)
    IN IF degree >= cap THEN [st EXCEPT !.panic = "degree"]
       ELSE IF st.buf[degree + 1] = None
            THEN [st EXCEPT !.buf[degree + 1] = Some(tree)]
            ELSE IF degree + 1 >= cap THEN [st EXCEPT !.panic = "degree"]
            ELSE [st EXCEPT !.buf[degree + 1] = None,
                            !.buf[degree + 2] =
                                Some(Merge(tree, st.buf[degree + 1][1])),
                            !.merges = @ + 1]

\* The inner `loop` of rebalance for one tree taken from the roots.  The
\* debug_assert (debug build) and the bounds check of buf[degree] (release
\* build) both panic when degree >= cap.
RECURSIVE Place(_, _)
Place(tree, st) ==
    LET degree == Degree(tree)
        cap    == Len(st.buf)
    IN IF degree >= cap THEN [st EXCEPT !.panic = "degree"]
       ELSE IF st.buf[degree + 1] = None
            THEN [st EXCEPT !.buf[degree + 1] = Some(tree)]
            ELSE Place(Merge(tree, st.buf[degree + 1][1]),
                       [st EXCEPT !.buf[degree + 1] = None,
                                  !.merges = @ + 1])

\* The occupied buckets read from the last to the first: descending degree
RECURSIVE BucketsDescending(_)
BucketsDescending(buf) ==
    IF buf = <<>> THEN <<>> ELSE BucketsDescending(Tail(buf)) \o Head(buf)

\* buf.into_iter().filter_map(|x| x): the occupied buckets, ascending degree
RECURSIVE Buckets(_)
Buckets(buf) ==
    IF buf = <<>> THEN <<>> ELSE Head(buf) \o Buckets(Tail(buf))

\* v1: while let Some(tree) = roots.pop_front() { ... }
RECURSIVE DrainFront(_, _)
DrainFront(roots, st) ==
    IF roots = <<>> \/ st.panic # "none" THEN st
    ELSE DrainFront(Tail(roots), Place(Head(roots), st))

\* v2: while let Some(tree) = roots.pop() { ... }
RECURSIVE DrainBack(_, _)
DrainBack(roots, st) ==
    IF roots = <<>> \/ st.panic # "none" THEN st
    ELSE DrainBack(SubSeq(roots, 1, Len(roots) - 1), Place(roots[Len(roots)], st))

\* cap without the + 1
CapIsLog(nodes) == ILog2(nodes)

\* let cap = nodes.ilog2() + 1, for nodes >= 1
Cap(nodes) == ILog2(nodes) + 1

\* v1 rebalance(roots): the result is [roots, merges, panic]
RebalanceV1(roots) ==
    IF roots = <<>> THEN [roots |-> roots, merges |-> 0, panic |-> "none"]
    ELSE LET nodes == CountNodes(roots)
             cap   == Cap(nodes)
             st    == DrainFront(roots, RebState(cap))
         IN [roots |-> Buckets(st.buf), merges |-> st.merges, panic |-> st.panic]

\* rebalance that returns at once whatever the list holds: no tree is taken
\* from the roots and none is merged
RebalanceV2Skipped(roots, nodes) ==
    [roots |-> roots, merges |-> 0, panic |-> "none"]

\* v2 rebalance(roots, nodes): nodes.ilog2() panics when nodes = 0
RebalanceV2(roots, nodes) ==
    IF roots = <<>> THEN [roots |-> roots, merges |-> 0, panic |-> "none"]
    ELSE IF nodes = 0 THEN [roots |-> roots, merges |-> 0, panic |-> "ilog2"]
    ELSE LET cap == Cap(nodes)
             st  == DrainBack(roots, RebState(cap))
         IN [roots |-> Buckets(st.buf), merges |-> st.merges, panic |-> st.panic]

\* ------------------------------------------------------------- min-locator
\* The fold that keeps the later of two equal keys, as max_by_key does
RECURSIVE MinFoldLast(_, _, _)
MinFoldLast(roots, i, best) ==
    IF i > Len(roots) THEN best
    ELSE MinFoldLast(roots, i + 1,
                     IF Root(roots[i]) <= Root(roots[best]) THEN i ELSE best)

\* roots.iter().enumerate().min_by_key(|(_, t)| t.root()): a left fold that
\* keeps the earlier of two equal keys.  The index is 1-based; 0 is None.
RECURSIVE MinFold(_, _, _)
MinFold(roots, i, best) ==
    IF i > Len(roots) THEN best
    ELSE MinFold(roots, i + 1,
                 IF Root(roots[i]) < Root(roots[best]) THEN i ELSE best)

MinIndex(roots) == IF roots = <<>> THEN 0 ELSE MinFold(roots, 2, 1)

\* bring_min_to_front without `split.append(roots)`: the prefix is lost
BringMinDropsPrefix(roots) ==
    LET idx == MinIndex(roots)
    IN IF idx = 0 THEN roots ELSE SubSeq(roots, idx, Len(roots))

\* bring_min_to_front that takes the minimum out and pushes it to the
\* front: the other roots stay as they were
BringMinKeepsOrder(roots) ==
    LET idx == MinIndex(roots)
    IN IF idx = 0 THEN roots
       ELSE <<roots[idx]>> \o SubSeq(roots, 1, idx - 1)
                          \o SubSeq(roots, idx + 1, Len(roots))

\* v1 bring_min_to_front: split_off(idx), then append the prefix
BringMinToFront(roots) ==
    LET idx == MinIndex(roots)
    IN IF idx = 0 THEN roots
       ELSE SubSeq(roots, idx, Len(roots)) \o SubSeq(roots, 1, idx - 1)

\* slice::swap
Swap(s, i, j) == [s EXCEPT ![i] = s[j], ![j] = s[i]]

\* order_min that swaps the minimum to the front, as v1 keeps it
OrderMinToFront(roots) ==
    LET idx == MinIndex(roots)
    IN IF idx = 0 THEN roots ELSE Swap(roots, idx, 1)

\* v2 order_min: swap(idx, lastidx)
OrderMin(roots) ==
    LET idx == MinIndex(roots)
    IN IF idx = 0 THEN roots ELSE Swap(roots, idx, Len(roots))

\* ---------------------------------------------------------------- v1 heap
\* The v1 heap is its list of roots.

\* v1 FibonacciHeap::new
NewV1 == <<>>

\* v1 FibonacciHeap::len
LenV1(roots) == CountNodes(roots)

\* v1 FibonacciHeap::peek: roots.front().map(Tree::root)
PeekV1(roots) == IF roots = <<>> THEN None ELSE Some(Root(Head(roots)))

\* push that consolidates at once: the new tree is added, then the roots
\* are rebalanced and the minimum is brought to the front
PushV1Eager(roots, item) ==
    LET added == IF roots = <<>> \/ item <= Root(Head(roots))
                 THEN <<TreeNew(item)>> \o roots
                 ELSE Append(roots, TreeNew(item))
    IN BringMinToFront(RebalanceV1(added).roots)

\* v1 FibonacciHeap::push: push_front when the list is empty or
\* item <= the current minimum, else push_back
PushV1(roots, item) ==
    IF PeekV1(roots) = None \/ item <= PeekV1(roots)[1]
    THEN <<TreeNew(item)>> \o roots
    ELSE Append(roots, TreeNew(item))

\* a pop that hands only the other roots to rebalance, without the children
\* of the root it took
PopV1DropsChildren(roots) ==
    IF roots = <<>>
    THEN [roots |-> roots, ret |-> None, merges |-> 0, panic |-> "none"]
    ELSE LET reb == RebalanceV1(Tail(roots))
         IN [roots  |-> IF reb.panic = "none" THEN BringMinToFront(reb.roots)
                        ELSE reb.roots,
             ret    |-> Some(Head(roots).node),
             merges |-> reb.merges,
             panic  |-> reb.panic]

\* v1 FibonacciHeap::pop: the result is [roots, ret, merges, panic]
PopV1(roots) ==
    IF roots = <<>>
    THEN [roots |-> roots, ret |-> None, merges |-> 0, panic |-> "none"]
    ELSE LET tree == Head(roots)
             rest == Tail(roots) \o tree.children
             reb  == RebalanceV1(rest)
         IN [roots  |-> IF reb.panic = "none" THEN BringMinToFront(reb.roots)
                        ELSE reb.roots,
             ret    |-> Some(tree.node),
             merges |-> reb.merges,
             panic  |-> reb.panic]

\* v1 Extend::extend: push each element in order
RECURSIVE ExtendV1(_, _)
ExtendV1(roots, xs) ==
    IF xs = <<>> THEN roots ELSE ExtendV1(PushV1(roots, Head(xs)), Tail(xs))

\* v1 FromIterator::from_iter
FromIterV1(xs) == ExtendV1(NewV1, xs)

\* ---------------------------------------------------------------- v2 heap
\* The v2 heap is [roots, len, cap]: the Vec of roots, the len field, and
\* the Vec's capacity (what reserve acts on).

Max(a, b) == IF a >= b THEN a ELSE b

\* Vec::reserve(additional) on a Vec of length n and capacity cap: nothing
\* when the room is there, else the amortised growth (doubling, at least
\* what is asked for, and at least 4 slots for an element of this size)
Reserve(cap, n, additional) ==
    IF cap - n >= additional THEN cap
    ELSE Max(4, Max(2 * cap, n + additional))

\* v2 FibonacciHeap::new
NewV2 == [roots |-> <<>>, len |-> 0, cap |-> 0]

\* v2 FibonacciHeap::len
LenV2(h) == h.len

\* v2 FibonacciHeap::peek: roots.last().map(Tree::root)
PeekV2(h) ==
    IF h.roots = <<>> THEN None ELSE Some(Root(h.roots[Len(h.roots)]))

\* push without `self.len += 1`
PushV2NoLen(h, item) ==
    LET new_min == h.roots = <<>> \/ item <= Root(h.roots[Len(h.roots)])
        pushed  == Append(h.roots, TreeNew(item))
        i       == Len(pushed)
    IN [roots |-> IF new_min THEN pushed ELSE Swap(pushed, i - 1, i),
        len   |-> h.len,
        cap   |-> Reserve(h.cap, Len(h.roots), 1)]

\* push without the swap of the last two slots
PushV2NoSwap(h, item) ==
    [roots |-> Append(h.roots, TreeNew(item)),
     len   |-> h.len + 1,
     cap   |-> Reserve(h.cap, Len(h.roots), 1)]

\* v2 FibonacciHeap::push: push to the back, swap the last two slots when
\* the item is not a new minimum, then len += 1
PushV2(h, item) ==
    LET new_min == PeekV2(h) = None \/ item <= PeekV2(h)[1]
        pushed  == Append(h.roots, TreeNew(item))
        i       == Len(pushed)
    IN [roots |-> IF new_min THEN pushed ELSE Swap(pushed, i - 1, i),
        len   |-> h.len + 1,
        cap   |-> Reserve(h.cap, Len(h.roots), 1)]

\* The capacity after roots.extend(buf.into_iter().filter_map(..)): k pushes
\* onto a Vec of length n
RECURSIVE CapAfter(_, _, _)
CapAfter(cap, n, k) ==
    IF k = 0 THEN cap ELSE CapAfter(Reserve(cap, n, 1), n + 1, k - 1)

\* pop's first half without `self.len -= 1`
TakeMinV2KeepsLen(h) ==
    LET n    == Len(h.roots)
        tree == h.roots[n]
    IN [node  |-> tree.node,
        roots |-> SubSeq(h.roots, 1, n - 1) \o tree.children,
        len   |-> h.len,
        cap   |-> Reserve(h.cap, n - 1, Len(tree.children)),
        panic |-> "none"]

\* v2 pop, lines 40-49, on a non-empty heap: the last root is taken, and
\* its children are added to the roots; len -= 1 is `len` here.
\* `self.len -= 1` cannot be reached with len = 0 unless the count is
\* already wrong; a debug build panics there ("underflow").
TakeMinV2(h) ==
    LET n    == Len(h.roots)
        tree == h.roots[n]
    IN [node  |-> tree.node,
        roots |-> SubSeq(h.roots, 1, n - 1) \o tree.children,
        len   |-> IF h.len = 0 THEN 0 ELSE h.len - 1,
        cap   |-> Reserve(h.cap, n - 1, Len(tree.children)),
        panic |-> IF h.len = 0 THEN "underflow" ELSE "none"]

\* pop with `self.len -= 1` moved before the match on roots.pop(), in a
\* build that wraps: an empty heap's len leaves 0
PopV2CountsFirst(h) ==
    IF h.roots = <<>>
    THEN [roots |-> h.roots, len |-> h.len - 1, cap |-> h.cap,
          ret |-> None, merges |-> 0, panic |-> "none"]
    ELSE LET t == TakeMinV2(h)
         IN IF t.panic # "none"
            THEN [roots |-> t.roots, len |-> t.len, cap |-> t.cap,
                  ret |-> Some(t.node), merges |-> 0, panic |-> t.panic]
            ELSE LET reb == RebalanceV2(t.roots, t.len)
                 IN [roots  |-> IF reb.panic = "none" THEN OrderMin(reb.roots)
                                ELSE reb.roots,
                     len    |-> t.len,
                     cap    |-> CapAfter(t.cap, 0, Len(reb.roots)),
                     ret    |-> Some(t.node),
                     merges |-> reb.merges,
                     panic  |-> reb.panic]

\* v2 FibonacciHeap::pop: the result is [roots, len, cap, ret, merges, panic]
PopV2(h) ==
    IF h.roots = <<>>
    THEN [roots |-> h.roots, len |-> h.len, cap |-> h.cap,
          ret |-> None, merges |-> 0, panic |-> "none"]
    ELSE LET t == TakeMinV2(h)
         IN IF t.panic # "none"
            THEN [roots |-> t.roots, len |-> t.len, cap |-> t.cap,
                  ret |-> Some(t.node), merges |-> 0, panic |-> t.panic]
            ELSE LET reb == RebalanceV2(t.roots, t.len)
                 IN [roots  |-> IF reb.panic = "none" THEN OrderMin(reb.roots)
                                ELSE reb.roots,
                     len    |-> t.len,
                     cap    |-> CapAfter(t.cap, 0, Len(reb.roots)),
                     ret    |-> Some(t.node),
                     merges |-> reb.merges,
                     panic  |-> reb.panic]

\* The `for x in iter { self.push(x) }` of v2 extend
RECURSIVE PushAllV2(_, _)
PushAllV2(h, xs) ==
    IF xs = <<>> THEN h ELSE PushAllV2(PushV2(h, Head(xs)), Tail(xs))

\* extend that appends the new trees to the roots without calling push
ExtendV2Raw(h, xs, hint) ==
    [roots |-> h.roots \o [i \in 1 .. Len(xs) |-> TreeNew(xs[i])],
     len   |-> h.len + Len(xs),
     cap   |-> Reserve(h.cap, Len(h.roots), Len(xs))]

\* v2 Extend::extend: reserve the size hint's upper bound when there is
\* one (hint is the Option), then push each element in order
ExtendV2(h, xs, hint) ==
    LET reserved == IF hint = None THEN h
                    ELSE [h EXCEPT !.cap = Reserve(h.cap, Len(h.roots), hint[1])]
    IN PushAllV2(reserved, xs)

\* v2 FromIterator::from_iter
FromIterV2(xs, hint) == ExtendV2(NewV2, xs, hint)

\* ------------------------------------------------------------ the program
VARIABLES
    roots1,     \* v1: FibonacciHeap.roots
    roots2,     \* v2: FibonacciHeap.roots
    len2,       \* v2: FibonacciHeap.len
    cap2,       \* v2: the capacity of FibonacciHeap.roots
    panic,      \* "none", or why the last call panicked (the run ends there)
    op,         \* the last call: [name, arg]
    ret1,       \* what the last call returned on the v1 heap
    ret2,       \* what the last call returned on the v2 heap
    pushes,     \* calls of push since the heap was created
    pops1,      \* calls of pop on the v1 heap that returned Some
    pops2,      \* calls of pop on the v2 heap that returned Some
    held1,      \* per value: times pushed minus times popped from the v1 heap
    held2,      \* per value: times pushed minus times popped from the v2 heap
    input,      \* pops_by_min_check: the vector xs under test
    next,       \* pops_by_min_check: the index of the next element to push
    out1,       \* pops_by_min_check: what the v1 heap popped so far
    out2,       \* pops_by_min_check: what the v2 heap popped so far
    mode,       \* the code that is running, step by step ("idle": none)
    run1,       \* v1: the locals of the rebalance call in progress
    run2,       \* v2: the locals of the rebalance call in progress
    snap1,      \* v1: the list as the last rebalance or min-locator call got it
    snap2,      \* v2: the list as the last rebalance or min-locator call got it
    tally       \* trees created by push and merges done by pop, counted

testVars == <<input, next, out1, out2>>
stepVars == <<mode, run1, run2, snap1, snap2>>
vars == <<roots1, roots2, len2, cap2, panic, op, ret1, ret2, pushes, pops1, pops2,
          held1, held2, input, next, out1, out2, mode, run1, run2, snap1, snap2,
          tally>>

\* The v2 heap of the current state
Heap2 == [roots |-> roots2, len |-> len2, cap |-> cap2]

\* Sequences over S of length at most n
SeqUpTo(S, n) == UNION {[1 .. k -> S] : k \in 0 .. n}

\* The count of each value: none held, after one more x, after all of xs,
\* and after an Option r is taken away
NoneHeld == [v \in Values |-> 0]
HeldPlus(held, x) == [held EXCEPT ![x] = @ + 1]
HeldMinus(held, r) == IF r = None THEN held ELSE [held EXCEPT ![r[1]] = @ - 1]
RECURSIVE HeldPlusAll(_, _)
HeldPlusAll(held, xs) ==
    IF xs = <<>> THEN held ELSE HeldPlusAll(HeldPlus(held, Head(xs)), Tail(xs))

\* FibonacciHeap::new() on both heaps
InitHeaps ==
    /\ roots1 = NewV1
    /\ roots2 = NewV2.roots
    /\ len2 = NewV2.len
    /\ cap2 = NewV2.cap
    /\ panic = "none"
    /\ op = [name |-> "new", arg |-> <<>>]
    /\ ret1 = <<>>
    /\ ret2 = <<>>
    /\ pushes = 0
    /\ pops1 = 0
    /\ pops2 = 0
    /\ held1 = NoneHeld
    /\ held2 = NoneHeld

\* The locals of rebalance when no call is in progress: pc is the position
\* in the code, buf the bucket array, tree the Option holding the tree in
\* hand, node the Option holding the element pop took, merged whether the
\* call has merged two trees
NoRun == [pc |-> "idle", buf |-> <<>>, tree |-> None, node |-> None, merged |-> FALSE]

\* Nothing counted yet. since: the trees push has created since the last pop.
\* For the last pop, created: what since was when it was called; before1,
\* before2: the roots the pop before it left; kids1, kids2: the children of
\* the root it took; handed1, handed2: the list it handed to rebalance;
\* merges1, merges2: the merges its rebalance did; after1, after2: the roots
\* it left
NoTally == [since |-> 0, created |-> 0,
            before1 |-> 0, kids1 |-> 0, handed1 |-> <<>>, merges1 |-> 0,
            after1 |-> 0,
            before2 |-> 0, kids2 |-> 0, handed2 |-> <<>>, merges2 |-> 0,
            after2 |-> 0]

InitSteps ==
    /\ mode = "idle"
    /\ run1 = NoRun
    /\ run2 = NoRun
    /\ snap1 = <<>>
    /\ snap2 = <<>>

Init ==
    /\ InitHeaps
    /\ InitSteps
    /\ tally = NoTally
    /\ input = <<>>
    /\ next = 1
    /\ out1 = <<>>
    /\ out2 = <<>>

\* heap.push(item) on both heaps
PushCall(item) ==
    /\ panic = "none"
    /\ roots1' = PushV1(roots1, item)
    /\ LET h == PushV2(Heap2, item)
       IN /\ roots2' = h.roots
          /\ len2' = h.len
          /\ cap2' = h.cap
    /\ op' = [name |-> "push", arg |-> <<item>>]
    /\ ret1' = <<>>
    /\ ret2' = <<>>
    /\ pushes' = pushes + 1
    /\ held1' = HeldPlus(held1, item)
    /\ held2' = HeldPlus(held2, item)
    /\ UNCHANGED <<panic, pops1, pops2>>

\* heap.pop() on both heaps
PopCall ==
    /\ panic = "none"
    /\ LET r1 == PopV1(roots1)
           r2 == PopV2(Heap2)
       IN /\ roots1' = r1.roots
          /\ roots2' = r2.roots
          /\ len2' = r2.len
          /\ cap2' = r2.cap
          /\ ret1' = r1.ret
          /\ ret2' = r2.ret
          /\ pops1' = IF r1.ret = None THEN pops1 ELSE pops1 + 1
          /\ pops2' = IF r2.ret = None THEN pops2 ELSE pops2 + 1
          /\ held1' = HeldMinus(held1, r1.ret)
          /\ held2' = HeldMinus(held2, r2.ret)
          /\ panic' = IF r1.panic # "none" THEN r1.panic ELSE r2.panic
    /\ op' = [name |-> "pop", arg |-> <<>>]
    /\ UNCHANGED pushes

\* heap.extend(xs) on both heaps; hint is the upper bound of the iterator's
\* size_hint
ExtendCall(xs, hint) ==
    /\ panic = "none"
    /\ pushes + Len(xs) <= MaxPushes
    /\ roots1' = ExtendV1(roots1, xs)
    /\ LET h == ExtendV2(Heap2, xs, hint)
       IN /\ roots2' = h.roots
          /\ len2' = h.len
          /\ cap2' = h.cap
    /\ op' = [name |-> "extend", arg |-> xs]
    /\ ret1' = <<>>
    /\ ret2' = <<>>
    /\ pushes' = pushes + Len(xs)
    /\ held1' = HeldPlusAll(held1, xs)
    /\ held2' = HeldPlusAll(held2, xs)
    /\ UNCHANGED <<panic, pops1, pops2>>

\* FibonacciHeap::from_iter(xs): the heap is built from a sequence instead
\* of by new() (so this is the first call of a run)
FromIterCall(xs, hint) ==
    /\ panic = "none"
    /\ op.name = "new"
    /\ roots1' = FromIterV1(xs)
    /\ LET h == FromIterV2(xs, hint)
       IN /\ roots2' = h.roots
          /\ len2' = h.len
          /\ cap2' = h.cap
    /\ op' = [name |-> "from_iter", arg |-> xs]
    /\ ret1' = <<>>
    /\ ret2' = <<>>
    /\ pushes' = Len(xs)
    /\ held1' = HeldPlusAll(NoneHeld, xs)
    /\ held2' = HeldPlusAll(NoneHeld, xs)
    /\ UNCHANGED <<panic, pops1, pops2>>

\* The upper bounds an iterator that yields xs may give as its size hint:
\* none, the exact length (a Vec's iterator), or more than it yields (a
\* filter over a source that is one element longer)
Hints(xs) == {None, Some(Len(xs)), Some(Len(xs) + 1)}

Push ==
    \E item \in Values :
        pushes < MaxPushes /\ PushCall(item) /\ UNCHANGED <<testVars, stepVars, tally>>

Pop == PopCall /\ UNCHANGED <<testVars, stepVars, tally>>

Extend ==
    \E xs \in SeqUpTo(Values, MaxExtend) : \E hint \in Hints(xs) :
        ExtendCall(xs, hint) /\ UNCHANGED <<testVars, stepVars, tally>>

FromIter ==
    \E xs \in SeqUpTo(Values, MaxExtend) : \E hint \in Hints(xs) :
        FromIterCall(xs, hint) /\ UNCHANGED <<testVars, stepVars, tally>>

Next == Push \/ Pop \/ Extend \/ FromIter

Spec == Init /\ [][Next]_vars

\* ------------------------------------------------- tests::pops_by_min_check
\* xs.sort(): insertion sort, ascending
RECURSIVE InsertSorted(_, _)
InsertSorted(s, x) ==
    IF s = <<>> THEN <<x>>
    ELSE IF x <= Head(s) THEN <<x>> \o s
    ELSE <<Head(s)>> \o InsertSorted(Tail(s), x)

RECURSIVE SortAsc(_)
SortAsc(s) ==
    IF s = <<>> THEN <<>> ELSE InsertSorted(SortAsc(Tail(s)), Head(s))

\* The test starts from a new heap and any vector xs
InitCheck ==
    /\ InitHeaps
    /\ InitSteps
    /\ tally = NoTally
    /\ input \in SeqUpTo(Values, MaxPushes)
    /\ next = 1
    /\ out1 = <<>>
    /\ out2 = <<>>

\* `while let Some(b) = heap.pop()` has seen None on both heaps
CheckDone == next > Len(input) /\ op.name = "pop" /\ ret1 = None /\ ret2 = None

\* for x in &xs { heap.push(*x) }
CheckPush ==
    /\ next <= Len(input)
    /\ PushCall(input[next])
    /\ next' = next + 1
    /\ UNCHANGED <<input, out1, out2, stepVars, tally>>

\* while let Some(b) = heap.pop() { ... }: b is recorded
CheckPop ==
    /\ next > Len(input)
    /\ ~CheckDone
    /\ PopCall
    /\ out1' = out1 \o ret1'
    /\ out2' = out2 \o ret2'
    /\ UNCHANGED <<input, next, stepVars, tally>>

NextCheck == CheckPush \/ CheckPop

SpecCheck == InitCheck /\ [][NextCheck]_vars

\* ------------------------------------------------ pop and the tests in steps
\* rebalance and the code around it, one loop iteration at a time.  The v1
\* code and the v2 code run side by side on the same calls.  roots1 and
\* roots2 hold the list rebalance works on: the heap's roots inside pop, the
\* list `ll` inside a test; len2 holds the `nodes` argument of the v2 code.
\* mode names the code that is running:
\*   "idle"                no call is in progress
\*   "pop"                 FibonacciHeap::pop
\*   "mhp1", "mhp2"        tests::min_heap_property, first and second rebalance
\*   "rom0", "rom1", "rom2"  tests::recycle_on_min: after the first min-locator
\*                         call, in rebalance, after the second min-locator call
\* run.pc is the position inside rebalance: "take" at the head of the while
\* loop, "place" at the head of the inner loop, "ret" once it has returned,
\* "panic" when it panicked.
callVars == <<op, ret1, ret2, pushes, pops1, pops2, held1, held2>>

\* xs.iter().copied().map(Tree::new).collect()
Singletons(xs) == [i \in 1 .. Len(xs) |-> TreeNew(xs[i])]

\* rebalance that takes the number of roots for the number of nodes
EnterV1CountsRoots(roots, node) ==
    IF roots = <<>> THEN [NoRun EXCEPT !.pc = "ret", !.node = node]
    ELSE [NoRun EXCEPT !.pc = "take", !.node = node,
                       !.buf = RebState(Cap(Len(roots))).buf]

\* v1 rebalance, lines 72-83: the early return, then nodes, cap and buf
EnterV1(roots, node) ==
    IF roots = <<>> THEN [NoRun EXCEPT !.pc = "ret", !.node = node]
    ELSE [NoRun EXCEPT !.pc = "take", !.node = node,
                       !.buf = RebState(Cap(CountNodes(roots))).buf]

\* v2 rebalance without the early return on an empty list
EnterV2NoEarlyReturn(roots, nodes, node) ==
    IF nodes = 0 THEN [NoRun EXCEPT !.pc = "panic", !.node = node]
    ELSE [NoRun EXCEPT !.pc = "take", !.node = node,
                       !.buf = RebState(Cap(nodes)).buf]

\* v2 rebalance, lines 86-95: the early return, then cap and buf
EnterV2(roots, nodes, node) ==
    IF roots = <<>> THEN [NoRun EXCEPT !.pc = "ret", !.node = node]
    ELSE IF nodes = 0 THEN [NoRun EXCEPT !.pc = "panic", !.node = node]
    ELSE [NoRun EXCEPT !.pc = "take", !.node = node,
                       !.buf = RebState(Cap(nodes)).buf]

\* The inner loop reading buf[degree] without take() and without the
\* push: an occupied bucket leaves the tree in hand and the bucket as they are
PlaceStepNoTake(run) ==
    LET tree   == run.tree[1]
        degree == Degree(tree)
        cap    == Len(run.buf)
    IN IF degree >= cap THEN [run EXCEPT !.pc = "panic"]
       ELSE IF run.buf[degree + 1] = None
            THEN [run EXCEPT !.buf[degree + 1] = Some(tree),
                             !.tree = None, !.pc = "take"]
            ELSE [run EXCEPT !.merged = TRUE]

\* One iteration of the inner `loop` with a tree in hand: the assertion,
\* then the match on buf[degree].take()
PlaceStep(run) ==
    LET tree   == run.tree[1]
        degree == Degree(tree)
        cap    == Len(run.buf)
    IN IF degree >= cap THEN [run EXCEPT !.pc = "panic"]
       ELSE IF run.buf[degree + 1] = None
            THEN [run EXCEPT !.buf[degree + 1] = Some(tree),
                             !.tree = None, !.pc = "take"]
            ELSE [run EXCEPT !.tree = Some(Merge(tree, run.buf[degree + 1][1])),
                             !.buf[degree + 1] = None, !.merged = TRUE]

\* pop on both heaps, up to the while loop of rebalance: the minimum is
\* taken, its children join the roots, rebalance is entered.  On an empty
\* heap pop returns None at once.
PopBegin ==
    /\ mode = "idle"
    /\ panic = "none"
    /\ mode' = "pop"
    /\ IF roots1 = <<>>
       THEN /\ roots1' = roots1
            /\ run1' = [NoRun EXCEPT !.pc = "ret"]
       ELSE /\ roots1' = Tail(roots1) \o Head(roots1).children
            /\ run1' = EnterV1(roots1', Some(Head(roots1).node))
    /\ IF roots2 = <<>>
       THEN /\ run2' = [NoRun EXCEPT !.pc = "ret"]
            /\ UNCHANGED <<roots2, len2, cap2, panic>>
       ELSE LET t == TakeMinV2(Heap2)
            IN /\ roots2' = t.roots
               /\ len2' = t.len
               /\ cap2' = t.cap
               /\ run2' = IF t.panic # "none"
                          THEN [NoRun EXCEPT !.pc = "panic", !.node = Some(t.node)]
                          ELSE EnterV2(t.roots, t.len, Some(t.node))
               /\ panic' = IF t.panic # "none" THEN t.panic
                           ELSE IF run2'.pc = "panic" THEN "ilog2" ELSE "none"
    /\ snap1' = roots1'
    /\ snap2' = roots2'
    /\ UNCHANGED <<callVars, testVars, tally>>

\* v1: `while let Some(mut tree) = roots.pop_front()` takes a tree
Take1 ==
    /\ run1.pc = "take"
    /\ roots1 # <<>>
    /\ roots1' = Tail(roots1)
    /\ run1' = [run1 EXCEPT !.pc = "place", !.tree = Some(Head(roots1))]

\* v1: one iteration of the inner loop
Place1 ==
    /\ run1.pc = "place"
    /\ run1' = PlaceStep(run1)
    /\ UNCHANGED roots1

\* v1: the while loop ends, roots.extend(buf...), rebalance returns
Finish1 ==
    /\ run1.pc = "take"
    /\ roots1 = <<>>
    /\ roots1' = Buckets(run1.buf)
    /\ run1' = [run1 EXCEPT !.pc = "ret", !.buf = <<>>]

\* v1: rebalance has returned and waits for the v2 code
Rest1 == run1.pc = "ret" /\ UNCHANGED <<roots1, run1>>

\* v2: `while let Some(mut tree) = roots.pop()` takes a tree
Take2 ==
    /\ run2.pc = "take"
    /\ roots2 # <<>>
    /\ roots2' = SubSeq(roots2, 1, Len(roots2) - 1)
    /\ run2' = [run2 EXCEPT !.pc = "place", !.tree = Some(roots2[Len(roots2)])]
    /\ UNCHANGED cap2

\* v2: one iteration of the inner loop
Place2 ==
    /\ run2.pc = "place"
    /\ run2' = PlaceStep(run2)
    /\ UNCHANGED <<roots2, cap2>>

\* v2: the while loop ends, roots.extend(buf...), rebalance returns
Finish2 ==
    /\ run2.pc = "take"
    /\ roots2 = <<>>
    /\ roots2' = Buckets(run2.buf)
    /\ cap2' = CapAfter(cap2, 0, Len(roots2'))
    /\ run2' = [run2 EXCEPT !.pc = "ret", !.buf = <<>>]

\* v2: rebalance has returned and waits for the v1 code
Rest2 == run2.pc = "ret" /\ UNCHANGED <<roots2, cap2, run2>>

\* rebalance is in one of its loops
InLoops(run) == run.pc \in {"take", "place"}

\* One step of rebalance on each heap: the v1 code and the v2 code, run
\* side by side on the same calls, each take their next step (the one that
\* has returned waits for the other)
RebStep ==
    /\ panic = "none"
    /\ <<run1.pc, run2.pc>> # <<"ret", "ret">>
    /\ Take1 \/ Place1 \/ Finish1 \/ Rest1
    /\ Take2 \/ Place2 \/ Finish2 \/ Rest2
    /\ panic' = IF run1'.pc = "panic" \/ run2'.pc = "panic" THEN "degree" ELSE panic
    /\ UNCHANGED <<len2, callVars, testVars, mode, snap1, snap2, tally>>

\* rebalance has returned on both heaps
Returned == panic = "none" /\ run1.pc = "ret" /\ run2.pc = "ret"

\* pop, after rebalance: the min-locator runs and the element is returned
\* (an empty heap's pop has returned None before either)
PopEnd ==
    /\ mode = "pop"
    /\ Returned
    /\ mode' = "idle"
    /\ snap1' = roots1
    /\ snap2' = roots2
    /\ roots1' = IF run1.node = None THEN roots1 ELSE BringMinToFront(roots1)
    /\ roots2' = IF run2.node = None THEN roots2 ELSE OrderMin(roots2)
    /\ ret1' = run1.node
    /\ ret2' = run2.node
    /\ pops1' = IF run1.node = None THEN pops1 ELSE pops1 + 1
    /\ pops2' = IF run2.node = None THEN pops2 ELSE pops2 + 1
    /\ held1' = HeldMinus(held1, run1.node)
    /\ held2' = HeldMinus(held2, run2.node)
    /\ op' = [name |-> "pop", arg |-> <<>>]
    /\ run1' = NoRun
    /\ run2' = NoRun
    /\ UNCHANGED <<len2, cap2, panic, pushes, testVars, tally>>

\* push between two pops
StepPush ==
    \E item \in Values :
        /\ mode = "idle"
        /\ pushes < MaxStepPushes
        /\ PushCall(item)
        /\ UNCHANGED <<testVars, stepVars, tally>>

\* tests::min_heap_property(xs): the list of singleton trees is built and
\* the first rebalance is entered
MhpBegin ==
    /\ mode = "idle"
    /\ op.name = "new"
    /\ \E xs \in SeqUpTo(Values, MaxPushes) :
        /\ mode' = "mhp1"
        /\ input' = xs
        /\ roots1' = Singletons(xs)
        /\ roots2' = Singletons(xs)
        /\ len2' = Len(xs)
        /\ cap2' = Len(xs)
        /\ run1' = EnterV1(roots1', None)
        /\ run2' = EnterV2(roots2', len2', None)
        /\ snap1' = roots1'
        /\ snap2' = roots2'
        /\ op' = [name |-> "min_heap_property", arg |-> xs]
        /\ UNCHANGED <<panic, ret1, ret2, pushes, pops1, pops2, held1, held2,
                       next, out1, out2, tally>>

\* min_heap_property: the assertions on the first result, then the second
\* rebalance of the same list is entered
MhpAgain ==
    /\ mode = "mhp1"
    /\ Returned
    /\ mode' = "mhp2"
    /\ run1' = EnterV1(roots1, None)
    /\ run2' = EnterV2(roots2, len2, None)
    /\ snap1' = roots1
    /\ snap2' = roots2
    /\ UNCHANGED <<roots1, roots2, len2, cap2, panic, callVars, testVars,
                   tally>>

\* tests::recycle_on_min(xs): the list of singleton trees is built and the
\* min-locator is called on it
RomBegin ==
    /\ mode = "idle"
    /\ op.name = "new"
    /\ \E xs \in SeqUpTo(Values, MaxPushes) :
        /\ mode' = "rom0"
        /\ input' = xs
        /\ snap1' = Singletons(xs)
        /\ snap2' = Singletons(xs)
        /\ roots1' = BringMinToFront(snap1')
        /\ roots2' = OrderMin(snap2')
        /\ len2' = Len(xs)
        /\ cap2' = Len(xs)
        /\ op' = [name |-> "recycle_on_min", arg |-> xs]
        /\ UNCHANGED <<panic, ret1, ret2, pushes, pops1, pops2, held1, held2,
                       next, out1, out2, run1, run2, tally>>

\* recycle_on_min: the first assertion, then rebalance is entered
RomRebalance ==
    /\ mode = "rom0"
    /\ panic = "none"
    /\ mode' = "rom1"
    /\ run1' = EnterV1(roots1, None)
    /\ run2' = EnterV2(roots2, len2, None)
    /\ snap1' = roots1
    /\ snap2' = roots2
    /\ UNCHANGED <<roots1, roots2, len2, cap2, panic, callVars, testVars,
                   tally>>

\* recycle_on_min: rebalance has returned, the min-locator is called again
RomEnd ==
    /\ mode = "rom1"
    /\ Returned
    /\ mode' = "rom2"
    /\ snap1' = roots1
    /\ snap2' = roots2
    /\ roots1' = BringMinToFront(roots1)
    /\ roots2' = OrderMin(roots2)
    /\ run1' = NoRun
    /\ run2' = NoRun
    /\ UNCHANGED <<len2, cap2, panic, callVars, testVars, tally>>

NextSteps ==
    \/ StepPush
    \/ PopBegin
    \/ RebStep
    \/ PopEnd
    \/ MhpBegin
    \/ MhpAgain
    \/ RomBegin
    \/ RomRebalance
    \/ RomEnd

SpecSteps == Init /\ [][NextSteps]_vars

\* The code runs on: a step that can be taken is taken
SpecStepsFair == SpecSteps /\ WF_vars(NextSteps)

\* ------------------------------------------------- push and pop, counted
\* Calls of push and pop with the trees and merges counted: push creates
\* one tree (Tree::new); pop hands the other roots, with the children of the
\* root it took, to rebalance, which merges pairs of them.
CountedPush ==
    /\ mode = "idle"
    /\ pushes < MaxStepPushes
    /\ len2 < MaxHeld
    /\ \E item \in Values : PushCall(item)
    /\ tally' = [tally EXCEPT !.since = @ + 1]
    /\ UNCHANGED <<testVars, stepVars>>

CountedPop ==
    /\ mode = "idle"
    /\ PopCall
    /\ tally' = [since   |-> 0,
                 created |-> tally.since,
                 before1 |-> tally.after1,
                 kids1   |-> IF roots1 = <<>> THEN 0 ELSE Degree(Head(roots1)),
                 handed1 |-> IF roots1 = <<>> THEN <<>>
                             ELSE Tail(roots1) \o Head(roots1).children,
                 merges1 |-> PopV1(roots1).merges,
                 after1  |-> Len(roots1'),
                 before2 |-> tally.after2,
                 kids2   |-> IF roots2 = <<>> THEN 0
                             ELSE Degree(roots2[Len(roots2)]),
                 handed2 |-> IF roots2 = <<>> THEN <<>>
                             ELSE TakeMinV2(Heap2).roots,
                 merges2 |-> PopV2(Heap2).merges,
                 after2  |-> Len(roots2')]
    /\ UNCHANGED <<testVars, stepVars>>

NextPops == CountedPush \/ CountedPop

SpecPops == Init /\ [][NextPops]_vars

\* ------------------------------------------------------------- properties
\* The number of nodes of value v in a forest
RECURSIVE ForestCount(_, _)
ForestCount(roots, v) ==
    IF roots = <<>> THEN 0
    ELSE (IF Head(roots).node = v THEN 1 ELSE 0)
         + ForestCount(Head(roots).children, v)
         + ForestCount(Tail(roots), v)

\* The multiset of the values of a forest: value -> number of nodes
ForestBag(roots) == [v \in Values |-> ForestCount(roots, v)]

\* What peek() has to return for a multiset of held values
ExpectedPeek(held) ==
    LET pos == {v \in Values : held[v] > 0}
    IN IF pos = {} THEN None
       ELSE Some(CHOOSE v \in pos : \A w \in pos : v <= w)

\* The root r is <= every value of the forest
RootIsLeast(r, roots) == \A v \in Values : ForestCount(roots, v) > 0 => r.node <= v

\* C1: after any sequence of calls, peek() is None iff nothing is held, and
\* otherwise it is the minimum of the values pushed and not yet popped; the
\* root at the front (v1) or at the last index (v2) is <= every value of
\* the forest.
C1_PeekIsMinimum ==
    /\ PeekV1(roots1) = ExpectedPeek(held1)
    /\ PeekV2(Heap2) = ExpectedPeek(held2)
    /\ roots1 # <<>> => RootIsLeast(Head(roots1), roots1)
    /\ roots2 # <<>> => RootIsLeast(roots2[Len(roots2)], roots2)

\* C1's case: after a pop, several roots, and the minimum is not the only value
C1_Witness ==
    /\ op.name = "pop"
    /\ pops1 >= 2
    /\ Len(roots1) >= 2
    /\ Len(roots2) >= 2
    /\ PeekV1(roots1) = Some(1)
    /\ held1[2] > 0
    /\ PeekV2(Heap2) = Some(1)

\* C2: pops_by_min_check: once both drains have ended, the values popped
\* are the values of xs in ascending order.
C2_DrainIsSorted ==
    CheckDone => out1 = SortAsc(input) /\ out2 = SortAsc(input)

\* C2's case: the drain of pops_by_min_01, pushed in another order
C2_Witness ==
    /\ CheckDone
    /\ input = <<1, 0, 0, 1, 0>>
    /\ out1 = <<0, 0, 0, 1, 1>>
    /\ out2 = <<0, 0, 0, 1, 1>>

\* C3: len() is the number of pushes minus the number of pops that returned
\* Some; a pop that returned None leaves len() at 0; the v2 counter never
\* goes below 0.
C3_LenIsPushesMinusPops ==
    /\ LenV1(roots1) = pushes - pops1
    /\ LenV2(Heap2) = pushes - pops2
    /\ len2 >= 0
    /\ panic # "underflow"
    /\ (op.name = "pop" /\ ret1 = None) => LenV1(roots1) = 0
    /\ (op.name = "pop" /\ ret2 = None) => LenV2(Heap2) = 0

\* C3's case: pushes and pops interleaved, some elements left
C3_Witness ==
    /\ op.name = "push"
    /\ pushes >= 4
    /\ pops1 >= 2
    /\ pops2 >= 2
    /\ LenV1(roots1) = 2
    /\ LenV2(Heap2) = 2

\* What push(x) has to leave as peek() when peek() was m
PeekAfterPush(m, x) == IF m = None \/ x <= m[1] THEN Some(x) ELSE m

C4_Step ==
    op'.name = "push" =>
        /\ PeekV1(roots1') = PeekAfterPush(PeekV1(roots1), op'.arg[1])
        /\ PeekV2(Heap2') = PeekAfterPush(PeekV2(Heap2), op'.arg[1])

\* C4: every push(x), in any reachable state, leaves peek() = x when the
\* heap was empty or x <= the minimum m, and leaves it = m otherwise.
C4_PushKeepsMinimum == [][C4_Step]_vars

\* C4's case: after pops, a push of a value above the minimum
C4_Witness ==
    /\ op.name = "push"
    /\ pops1 >= 1
    /\ pops2 >= 1
    /\ Len(roots1) >= 3
    /\ op.arg[1] > PeekV1(roots1)[1]
    /\ op.arg[1] > PeekV2(Heap2)[1]

C5_Step ==
    op'.name = "pop" =>
        /\ roots1 # <<>> =>
            /\ ret1' # None
            /\ ret1' = PeekV1(roots1)
            /\ ForestBag(roots1') = HeldMinus(ForestBag(roots1), ret1')
            /\ PeekV1(roots1') = ExpectedPeek(HeldMinus(ForestBag(roots1), ret1'))
        /\ roots2 # <<>> =>
            /\ ret2' # None
            /\ ret2' = PeekV2(Heap2)
            /\ ForestBag(roots2') = HeldMinus(ForestBag(roots2), ret2')
            /\ PeekV2(Heap2') = ExpectedPeek(HeldMinus(ForestBag(roots2), ret2'))

\* C5: a pop of a non-empty heap returns Some of what peek() returned just
\* before; the values held afterwards are those held before less one
\* occurrence of it, and peek() is then the minimum of the remainder.
C5_PopTakesMinimum == [][C5_Step]_vars

\* C5's case: a pop that merged trees and left one of the popped value behind
C5_Witness ==
    /\ op.name = "pop"
    /\ ret1 = Some(1)
    /\ ret2 = Some(1)
    /\ held1[1] >= 1
    /\ held1[0] = 0
    /\ \E i \in 1 .. Len(roots1) : Degree(roots1[i]) >= 2
    /\ \E i \in 1 .. Len(roots2) : Degree(roots2[i]) >= 2

C6_Step ==
    /\ op'.name = "pop" =>
        /\ (roots1 = <<>>) <=> (ret1' = None)
        /\ (roots2 = <<>>) <=> (ret2' = None)
        /\ roots1 = <<>> =>
            /\ PeekV1(roots1) = None
            /\ roots1' = <<>>
            /\ LenV1(roots1') = 0
        /\ roots2 = <<>> =>
            /\ PeekV2(Heap2) = None
            /\ roots2' = <<>>
            /\ LenV2(Heap2) = 0
            /\ LenV2(Heap2') = 0
        /\ panic' = "none"
    /\ (op.name = "pop" /\ ret1 = None /\ ret2 = None /\ op'.name = "push") =>
        /\ PeekV1(roots1') = op'.arg
        /\ PeekV2(Heap2') = op'.arg
        /\ LenV1(roots1') = 1
        /\ LenV2(Heap2') = 1

\* C6: pop() returns None iff the heap was empty; on an empty heap peek()
\* is None and pop() leaves the roots empty and len() at 0; a push after
\* such a pop works as on a new heap.
C6_EmptyPop == [][C6_Step]_vars

\* C6's case: a heap that held elements, was drained, and was popped again
C6_Witness ==
    /\ op.name = "pop"
    /\ ret1 = None
    /\ ret2 = None
    /\ pops1 >= 2
    /\ pops2 >= 2
    /\ roots1 = <<>>
    /\ roots2 = <<>>

\* C7: after the same calls, len(), peek() and the last call's result are
\* the same on the v1 heap and on the v2 heap.
C7_SameObservations ==
    /\ LenV1(roots1) = LenV2(Heap2)
    /\ PeekV1(roots1) = PeekV2(Heap2)
    /\ ret1 = ret2

\* C7's case: after a pop, the two forests hold their trees differently
C7_Witness ==
    /\ op.name = "pop"
    /\ ret1 # None
    /\ ret2 # None
    /\ Len(roots1) >= 2
    /\ Len(roots2) >= 2
    /\ roots1 # roots2
    /\ Head(roots1) # roots2[Len(roots2)]

\* pop() until None on a v1 heap: the values returned
RECURSIVE DrainV1(_)
DrainV1(roots) ==
    LET r == PopV1(roots)
    IN IF r.ret = None \/ r.panic # "none" THEN r.ret
       ELSE r.ret \o DrainV1(r.roots)

\* pop() until None on a v2 heap: the values returned
RECURSIVE DrainV2(_)
DrainV2(h) ==
    LET r == PopV2(h)
    IN IF r.ret = None \/ r.panic # "none" THEN r.ret
       ELSE r.ret \o DrainV2([roots |-> r.roots, len |-> r.len, cap |-> r.cap])

\* What a caller can observe of a heap: len(), peek(), and every later pop()
ObsV1(roots) ==
    [len |-> LenV1(roots), peek |-> PeekV1(roots), pops |-> DrainV1(roots)]
ObsV2(h) ==
    [len |-> LenV2(h), peek |-> PeekV2(h), pops |-> DrainV2(h)]

\* push called on each element of xs in order
RECURSIVE PushEachV1(_, _)
PushEachV1(roots, xs) ==
    IF xs = <<>> THEN roots
    ELSE PushEachV1(PushV1(roots, xs[1]), SubSeq(xs, 2, Len(xs)))

RECURSIVE PushEachV2(_, _)
PushEachV2(h, xs) ==
    IF xs = <<>> THEN h
    ELSE PushEachV2(PushV2(h, xs[1]), SubSeq(xs, 2, Len(xs)))

\* Two heaps are observed alike: heaps that are equal are, and otherwise
\* len(), peek() and the drains are compared
SameObsV1(a, b) == a = b \/ ObsV1(a) = ObsV1(b)
SameObsV2(a, b) == a = b \/ ObsV2(a) = ObsV2(b)

C8_Step ==
    /\ op'.name = "extend" =>
        /\ SameObsV1(roots1', PushEachV1(roots1, op'.arg))
        /\ SameObsV2(Heap2', PushEachV2(Heap2, op'.arg))
    /\ op'.name = "from_iter" =>
        /\ SameObsV1(roots1', PushEachV1(NewV1, op'.arg))
        /\ SameObsV2(Heap2', PushEachV2(NewV2, op'.arg))

C9_LenCountsNodes ==
    /\ len2 = CountNodes(roots2)
    /\ (len2 = 0) <=> (roots2 = <<>>)
    /\ (LenV1(roots1) = 0) <=> (roots1 = <<>>)
    /\ roots2 # <<>> =>
        /\ TakeMinV2(Heap2).panic = "none"
        /\ TakeMinV2(Heap2).len = CountNodes(TakeMinV2(Heap2).roots)

\* C9's case: one root that carries all the other nodes
C9_Witness ==
    /\ pops2 >= 1
    /\ Len(roots2) = 1
    /\ len2 = 4
    /\ Degree(roots2[1]) = 2

\* tests::verify_min_heap: node <= child.root() for every child, recursively
RECURSIVE VerifyMinHeap(_)
VerifyMinHeap(tree) ==
    \A i \in 1 .. Len(tree.children) :
        /\ tree.node <= Root(tree.children[i])
        /\ VerifyMinHeap(tree.children[i])

\* C10: in every reachable state, so after every consolidation, every node
\* of every tree is <= each of its children.
C10_MinHeapOrder ==
    /\ \A i \in 1 .. Len(roots1) : VerifyMinHeap(roots1[i])
    /\ \A i \in 1 .. Len(roots2) : VerifyMinHeap(roots2[i])

\* C10's case: a tree of three levels with a tie and a strict step
C10_Witness ==
    /\ op.name = "pop"
    /\ \E i \in 1 .. Len(roots1) :
        /\ Degree(roots1[i]) = 2
        /\ Root(roots1[i].children[1]) = Root(roots1[i])
        /\ Root(roots1[i].children[2].children[1]) > Root(roots1[i])
    /\ \E i \in 1 .. Len(roots2) :
        /\ Degree(roots2[i]) = 2
        /\ Root(roots2[i].children[1]) = Root(roots2[i])
        /\ Root(roots2[i].children[2].children[1]) > Root(roots2[i])

\* The roots are in strictly ascending order of degree
AscendingDegrees(roots) ==
    \A i \in 1 .. Len(roots) - 1 : Degree(roots[i]) < Degree(roots[i + 1])

\* No two roots have the same degree
UniqueDegrees(roots) ==
    \A i, j \in 1 .. Len(roots) : i # j => Degree(roots[i]) # Degree(roots[j])

\* C11: when rebalance has returned, inside pop or in a test on a list of
\* singleton trees, no two roots of its output have the same degree and the
\* roots are in strictly ascending order of degree.
C11_RebalanceDegreesAscend ==
    /\ run1.pc = "ret" => AscendingDegrees(roots1) /\ UniqueDegrees(roots1)
    /\ run2.pc = "ret" => AscendingDegrees(roots2) /\ UniqueDegrees(roots2)

\* rebalance has returned inside pop, on both heaps, after merging trees
\* into more than one root
C11_Witness ==
    /\ mode = "pop"
    /\ Returned
    /\ run1.merged /\ Len(roots1) >= 2
    /\ run2.merged /\ Len(roots2) >= 2

\* Every tree of a forest: the roots and all their descendants
RECURSIVE Subtrees(_)
Subtrees(roots) ==
    IF roots = <<>> THEN {}
    ELSE {Head(roots)} \cup Subtrees(Head(roots).children) \cup Subtrees(Tail(roots))

\* s is the beginning of t
IsPrefix(s, t) == Len(s) <= Len(t) /\ SubSeq(t, 1, Len(s)) = s

\* Tree t is in the forest with the children it had, in their order, and
\* possibly more children after them
AppearsIntact(t, roots) ==
    \E u \in Subtrees(roots) : u.node = t.node /\ IsPrefix(t.children, u.children)

\* rebalance got the forest `input` and left the forest `output`: the same
\* multiset of values, and every input tree intact
KeepsValues(input_, output) ==
    /\ ForestBag(output) = ForestBag(input_)
    /\ \A i \in 1 .. Len(input_) : AppearsIntact(input_[i], output)

\* C12: rebalance neither loses nor duplicates a value.  When it has
\* returned, the output forest has the multiset of values of the input
\* forest, and each input tree is in the output with its own children
\* unchanged, possibly with further children after them.
C12_RebalanceKeepsValues ==
    /\ run1.pc = "ret" => KeepsValues(snap1, roots1)
    /\ run2.pc = "ret" => KeepsValues(snap2, roots2)

\* rebalance has returned inside pop, and on both heaps an input tree that
\* had children has been given one more
C12_Witness ==
    /\ mode = "pop"
    /\ Returned
    /\ \E i \in 1 .. Len(snap1) : \E u \in Subtrees(roots1) :
           /\ snap1[i].children # <<>>
           /\ u.node = snap1[i].node
           /\ IsPrefix(snap1[i].children, u.children)
           /\ Len(u.children) > Len(snap1[i].children)
    /\ \E i \in 1 .. Len(snap2) : \E u \in Subtrees(roots2) :
           /\ snap2[i].children # <<>>
           /\ u.node = snap2[i].node
           /\ IsPrefix(snap2[i].children, u.children)
           /\ Len(u.children) > Len(snap2[i].children)

\* floor(log2(n)) for n >= 1: the k with 2^k <= n < 2^(k+1)
FloorLog2(n) == CHOOSE k \in 0 .. n : 2 ^ k <= n /\ n < 2 ^ (k + 1)

\* The tree that the inner loop of a rebalance call over n nodes has in
\* hand, an input tree or a merged one, passes the assertion and indexes a
\* bucket that exists
HandledInRange(run, n) ==
    run.pc = "place" =>
        /\ Len(run.buf) = FloorLog2(n) + 1
        /\ Degree(run.tree[1]) < Len(run.buf)

\* C13: in every consolidation, each tree handled (an input tree or a
\* merged tree) has degree < cap = floor(log2(n)) + 1, n being the node
\* count of the call, so the degree assertion never fails and no bucket
\* index is out of range.
C13_DegreeBelowCap ==
    /\ panic # "degree"
    /\ run1.pc # "panic"
    /\ run2.pc # "panic"
    /\ HandledInRange(run1, CountNodes(snap1))
    /\ HandledInRange(run2, len2)

\* Inside pop the v1 code and the v2 code each have a merged tree in hand
\* of the greatest degree the buckets allow
C13_Witness ==
    /\ mode = "pop"
    /\ run1.pc = "place"
    /\ run1.merged
    /\ Degree(run1.tree[1]) = FloorLog2(CountNodes(snap1))
    /\ Degree(run1.tree[1]) >= 2
    /\ run2.pc = "place"
    /\ run2.merged
    /\ Degree(run2.tree[1]) = Len(run2.buf) - 1
    /\ Degree(run2.tree[1]) >= 2

\* The heaps hold exactly one element, x
OnlyElement(x) ==
    /\ held1 = [v \in Values |-> IF v = x THEN 1 ELSE 0]
    /\ held2 = held1

C14_Step ==
    /\ panic' = "none"
    /\ run1'.pc = "take" => CountNodes(snap1') >= 1
    /\ run2'.pc = "take" => len2' >= 1
    /\ \A x \in Values :
           (OnlyElement(x) /\ mode = "idle" /\ mode' = "pop") =>
               /\ run1' = [NoRun EXCEPT !.pc = "ret", !.node = Some(x)]
               /\ run2' = run1'
               /\ roots1' = <<>>
               /\ roots2' = <<>>
    /\ \A x \in Values :
           (OnlyElement(x) /\ mode = "pop" /\ mode' = "idle") =>
               /\ ret1' = Some(x)
               /\ ret2' = Some(x)
               /\ roots1' = <<>>
               /\ roots2' = <<>>
               /\ LenV1(roots1') = 0
               /\ LenV2([roots |-> roots2', len |-> len2', cap |-> cap2']) = 0
               /\ PeekV1(roots1') = None
               /\ PeekV2([roots |-> roots2', len |-> len2', cap |-> cap2']) = None

\* C14: when pop removes the only element it returns Some of it and leaves
\* the heap empty (len 0, peek None) with no consolidation work: rebalance
\* returns before it computes anything.  No sequence of push and pop makes
\* rebalance compute cap from a node count of zero, or panic.
C14_LastPopSkipsRebalance == [][C14_Step]_vars

\* pop has returned the only element, after an earlier push and pop
C14_Witness ==
    /\ mode = "idle"
    /\ op.name = "pop"
    /\ ret1 = Some(1)
    /\ ret2 = Some(1)
    /\ roots1 = <<>>
    /\ roots2 = <<>>
    /\ pops1 >= 2
    /\ pops1 = pushes

\* A step of the inner loop that found the bucket occupied: the call had a
\* tree in hand before the step and has the merged tree in hand after it
IsMerge(run, after) == run.pc = "place" /\ after.pc = "place"

\* res is parent with child pushed after the children it had
MergedAs(parent, child, res) ==
    res = [node |-> parent.node, children |-> Append(parent.children, child)]

\* What a merge step does with the tree in hand (tree) and the tree of the
\* bucket (tree_b); tieParent says which of the two keeps the root on a tie
MergeOutcome(run, after, tieParent) ==
    LET tree   == run.tree[1]
        degree == Degree(tree)
        tree_b == run.buf[degree + 1][1]
        res    == after.tree[1]
    IN /\ Root(tree) < Root(tree_b) => MergedAs(tree, tree_b, res)
       /\ Root(tree) > Root(tree_b) => MergedAs(tree_b, tree, res)
       /\ Root(tree) = Root(tree_b) =>
              IF tieParent = "bucket" THEN MergedAs(tree_b, tree, res)
              ELSE MergedAs(tree, tree_b, res)
       /\ Degree(res) = degree + 1
       /\ after.buf = [run.buf EXCEPT ![degree + 1] = None]

\* C15 as claimed: on a tie the tree being inserted becomes a child of the
\* tree already in the bucket
C15_AsClaimed ==
    [][/\ IsMerge(run1, run1') => MergeOutcome(run1, run1', "bucket")
       /\ IsMerge(run2, run2') => MergeOutcome(run2, run2', "bucket")]_vars

\* C15 (amended): when the bucket at the incoming tree's degree is occupied,
\* the tree with the strictly greater root becomes a child of the other, and
\* on a tie the tree already in the bucket becomes a child of the tree being
\* inserted; the surviving tree's degree increases by exactly one and the
\* bucket is vacated.
C15_MergeDirection ==
    [][/\ IsMerge(run1, run1') => MergeOutcome(run1, run1', "incoming")
       /\ IsMerge(run2, run2') => MergeOutcome(run2, run2', "incoming")]_vars

\* A merge on a tie between two trees that differ: in min_heap_property
\* every tree taken from the list is a singleton, so a tree in hand of
\* degree 2 has just been merged; its last child has its root value and is
\* not the tree it was before the merge
C15_Witness ==
    /\ mode = "mhp1"
    /\ run1.pc = "place"
    /\ Degree(run1.tree[1]) = 2
    /\ LET res  == run1.tree[1]
           last == res.children[2]
       IN /\ Root(last) = Root(res)
          /\ last # [res EXCEPT !.children = SubSeq(@, 1, 1)]

\* s without its k-th element
Without(s, k) == SubSeq(s, 1, k - 1) \o SubSeq(s, k + 1, Len(s))

\* x is a new minimum for a heap whose peek() is m
IsNewMin(m, x) == m = None \/ x <= m[1]

\* The roots after a call that is not pop: every root it had is still a
\* root, unchanged, and every other root is a tree without children
OnlyAdds(before, after, added) ==
    /\ Len(after) = Len(before) + added
    /\ \A i \in 1 .. Len(before) : \E j \in 1 .. Len(after) : after[j] = before[i]
    /\ \A j \in 1 .. Len(after) :
           after[j].children = <<>> \/ \E i \in 1 .. Len(before) : before[i] = after[j]

C16_Step ==
    /\ op'.name \in {"extend", "from_iter"} =>
           /\ OnlyAdds(roots1, roots1', Len(op'.arg))
           /\ OnlyAdds(roots2, roots2', Len(op'.arg))
    /\ op'.name = "push" =>
        LET x    == op'.arg[1]
            new  == [node |-> x, children |-> <<>>]
            n1   == Len(roots1')
            n2   == Len(roots2')
            k1   == IF IsNewMin(PeekV1(roots1), x) THEN 1 ELSE n1
            k2   == IF IsNewMin(PeekV2(Heap2), x) THEN n2 ELSE n2 - 1
        IN /\ n1 = Len(roots1) + 1
           /\ roots1'[k1] = new
           /\ Without(roots1', k1) = roots1
           /\ n2 = Len(roots2) + 1
           /\ roots2'[k2] = new
           /\ Without(roots2', k2) = roots2

\* C16: push is lazy.  It adds exactly one new tree of degree 0 to the
\* roots, merges nothing, leaves every existing tree unchanged and keeps the
\* existing roots in their relative order: v1 puts the new tree at the
\* front (a new minimum) or at the back; v2 appends it and swaps the last
\* two slots only when the item is not a new minimum, which puts it just
\* before the minimum.  Consolidation happens only inside pop: extend and
\* from_iter, like push, only add trees without children.
C16_PushIsLazy == [][C16_Step]_vars

\* A push, after a pop has merged trees, of an item that is not a new
\* minimum onto roots that hold a tree with children
C16_Witness ==
    /\ op.name = "push"
    /\ pops1 >= 1
    /\ op.arg[1] > PeekV1(roots1)[1]
    /\ op.arg[1] > PeekV2(Heap2)[1]
    /\ \E i \in 1 .. Len(roots1) : Degree(roots1[i]) >= 1
    /\ \E i \in 1 .. Len(roots2) : Degree(roots2[i]) >= 1
    /\ Len(roots2) >= 3

\* The number of times tree t is in the list s
Occurrences(s, t) == Cardinality({i \in 1 .. Len(s) : s[i] = t})

\* b holds the trees of a, each as often: a permutation
IsPermutation(a, b) ==
    /\ Len(a) = Len(b)
    /\ \A i \in 1 .. Len(a) : Occurrences(b, a[i]) = Occurrences(a, a[i])

\* The first index, in scan order, of a root of least value (s is not empty)
FirstMin(s) ==
    CHOOSE i \in 1 .. Len(s) :
        /\ \A j \in 1 .. Len(s) : Root(s[i]) <= Root(s[j])
        /\ \A j \in 1 .. i - 1 : Root(s[j]) > Root(s[i])

\* The min-locator has just been called, on the lists snap1 and snap2: at
\* the end of a pop that took an element, or in recycle_on_min
AfterMinLocator ==
    \/ mode = "idle" /\ op.name = "pop" /\ ret1 # None /\ ret2 # None
    \/ mode \in {"rom0", "rom2"}

\* C17: the min-locator, on any non-empty root collection, selects the root
\* of least value, the first such in scan order, and moves it to the
\* designated slot (the front in v1, the last slot in v2); the result is a
\* permutation of the input.  On an empty collection it does nothing.
C17_MinLocator ==
    AfterMinLocator =>
        /\ IsPermutation(snap1, roots1)
        /\ IsPermutation(snap2, roots2)
        /\ snap1 # <<>> => roots1[1] = snap1[FirstMin(snap1)]
        /\ snap2 # <<>> => roots2[Len(roots2)] = snap2[FirstMin(snap2)]

\* At the end of a pop the min-locator got, on both heaps, roots whose
\* first two trees tie for the minimum and differ, the first of them not in
\* the last slot
C17_Witness ==
    /\ mode = "idle"
    /\ op.name = "pop"
    /\ ret1 # None
    /\ Len(snap1) >= 2
    /\ Len(snap2) >= 2
    /\ FirstMin(snap1) = 1
    /\ FirstMin(snap2) = 1
    /\ Root(snap1[2]) = Root(snap1[1])
    /\ Root(snap2[2]) = Root(snap2[1])
    /\ snap1[2] # snap1[1]
    /\ snap2[2] # snap2[1]

\* s turned round so that its k-th element is the first: the elements from
\* k on, then the elements before k
RotatedTo(s, k) == [i \in 1 .. Len(s) |-> s[((k + i - 2) % Len(s)) + 1]]

\* The roots of s whose value is above the least, in their order
NonMinimum(s) ==
    LET Above(t) == Root(t) > Root(s[FirstMin(s)])
    IN SelectSeq(s, Above)

\* C18 as claimed: after bring_min_to_front the minimum is at the front and
\* the non-minimum roots are in the same relative order as before the call
C18_AsClaimed ==
    (AfterMinLocator /\ snap1 # <<>>) =>
        /\ roots1[1] = snap1[FirstMin(snap1)]
        /\ NonMinimum(roots1) = NonMinimum(snap1)

\* C18 (amended): bring_min_to_front makes the minimum the new front by
\* turning the list round: the roots from the minimum to the end come
\* first, in their order, then the roots that were before the minimum, in
\* their order.  The remaining roots keep their relative order only within
\* each of these two parts.
C18_BringMinRotates ==
    (AfterMinLocator /\ snap1 # <<>>) =>
        roots1 = RotatedTo(snap1, FirstMin(snap1))

\* recycle_on_min on a list whose minimum has roots before it and after it
\* that differ
C18_Witness ==
    /\ mode = "rom0"
    /\ Len(snap1) >= 3
    /\ FirstMin(snap1) > 1
    /\ FirstMin(snap1) < Len(snap1)
    /\ snap1[1] # snap1[Len(snap1)]
    /\ roots1[Len(roots1)] = snap1[FirstMin(snap1) - 1]

\* rebalance has returned on a list that was degree-unique when it got it:
\* it merged nothing and left the same trees, in ascending order of degree,
\* each a min-heap; a list that was in ascending order is left as it was
LeftAlone(input_, output, run) ==
    (run.pc = "ret" /\ UniqueDegrees(input_)) =>
        /\ ~run.merged
        /\ IsPermutation(input_, output)
        /\ AscendingDegrees(output)
        /\ UniqueDegrees(output)
        /\ \A i \in 1 .. Len(output) : VerifyMinHeap(output[i])
        /\ AscendingDegrees(input_) => output = input_

\* C19: rebalance is idempotent on its own output.  A second call, with the
\* same n, on a forest that is already degree-unique (min_heap_property
\* calls it twice; pop calls it on such a forest when the tree it took had
\* no children) does not panic, merges nothing and leaves the forest
\* degree-unique, min-heap-valid and with the same trees in ascending
\* order of degree.
C19_RebalanceIdempotent ==
    /\ mode = "mhp2" => panic = "none" /\ run1.pc # "panic" /\ run2.pc # "panic"
    /\ LeftAlone(snap1, roots1, run1)
    /\ LeftAlone(snap2, roots2, run2)

\* The second rebalance of min_heap_property has returned, on a forest of
\* several trees, one of degree 2 or more
C19_Witness ==
    /\ mode = "mhp2"
    /\ Returned
    /\ Len(roots1) >= 2
    /\ Len(roots2) >= 2
    /\ Degree(roots1[Len(roots1)]) >= 2
    /\ Degree(roots2[Len(roots2)]) >= 2
    /\ roots1 = snap1
    /\ roots2 = snap2

\* No rebalance call is in its loops and no pop is under way
AtRest == ~InLoops(run1) /\ ~InLoops(run2) /\ mode # "pop"

\* A step of the inner loop that goes round again has raised the degree of
\* the tree in hand by exactly one and left it below cap
RetryRaisesDegree(run, after) ==
    IsMerge(run, after) =>
        /\ Degree(after.tree[1]) = Degree(run.tree[1]) + 1
        /\ Degree(after.tree[1]) < Len(after.buf)

\* A step of the outer loop that takes a tree has shortened the list
TakeShortens(run, after, roots, rootsAfter) ==
    (run.pc = "take" /\ after.pc = "place") => Len(rootsAfter) = Len(roots) - 1

\* C20: rebalance always terminates.  The inner retry loop ends because the
\* degree of the tree in hand rises by exactly one on every merge and stays
\* below cap; the outer loop ends because every pass takes a tree from the
\* list; so every rebalance that has entered its loops returns and every
\* pop runs to completion: time and again no call is under way.
C20_RebalanceTerminates ==
    /\ [][/\ RetryRaisesDegree(run1, run1')
          /\ RetryRaisesDegree(run2, run2')
          /\ TakeShortens(run1, run1', roots1, roots1')
          /\ TakeShortens(run2, run2', roots2, roots2')]_vars
    /\ []<>AtRest

\* Inside pop the v2 code has a merged tree in hand whose bucket is
\* occupied, so the inner loop goes round once more, and trees are left
\* for the outer loop
C20_Witness ==
    /\ mode = "pop"
    /\ run2.pc = "place"
    /\ run2.merged
    /\ Degree(run2.tree[1]) = 1
    /\ run2.buf[2] # None
    /\ roots2 # <<>>


\* The trees the last pop handed to rebalance: the roots the pop before it
\* left and the ones pushed since, less the root it took, with that root's
\* children
HandedIn1 == tally.before1 + tally.created - 1 + tally.kids1

HandedIn2 == tally.before2 + tally.created - 1 + tally.kids2

\* The statement without the trees that were there already: the merges of a
\* pop are bounded by the trees created since the last pop
C21_AsClaimed ==
    /\ tally.merges1 <= tally.created
    /\ tally.merges2 <= tally.created

\* C21: for every pop in any push/pop sequence, the number of tree merges
\* done by the consolidation inside that pop is the number of trees handed
\* to it less the number of trees it leaves, and so is bounded by the trees
\* handed to it less one: the trees created since the last pop (each push
\* creating one new degree-0 tree) and the roots the last pop left, less
\* the root taken, together with the taken root's children.  A pop of an
\* empty heap merges nothing.
C21_MergesBounded ==
    (op.name = "pop" /\ panic = "none") =>
        /\ ret1 = None => tally.merges1 = 0
        /\ ret2 = None => tally.merges2 = 0
        /\ ret1 # None =>
              /\ tally.merges1 = HandedIn1 - Len(roots1)
              /\ HandedIn1 > 0 => tally.merges1 <= HandedIn1 - 1
        /\ ret2 # None =>
              /\ tally.merges2 = HandedIn2 - Len(roots2)
              /\ HandedIn2 > 0 => tally.merges2 <= HandedIn2 - 1

\* a pop right after a pop, with no tree created in between, that merges
C21_Witness ==
    /\ op.name = "pop"
    /\ panic = "none"
    /\ tally.created = 0
    /\ tally.merges1 > 0
    /\ tally.merges2 > 0
    /\ tally.merges1 = HandedIn1 - Len(roots1)


\* The degrees of the trees of a list
DegreeSet(roots) == {Degree(roots[i]) : i \in 1 .. Len(roots)}

\* The list in every order
Reorderings(xs) ==
    {[i \in 1 .. Len(xs) |-> xs[p[i]]] : p \in Permutations(1 .. Len(xs))}

\* What a rebalance call returned, [roots, merges, panic], is one tree in
\* the bucket of each of these degrees and none in another
FillsBuckets(reb, degrees) ==
    /\ reb.panic = "none"
    /\ DegreeSet(reb.roots) = degrees
    /\ Len(reb.roots) = Cardinality(degrees)

\* C22: the order in which rebalance takes the trees of its input does not
\* change which buckets end up filled: whatever list a pop handed to
\* rebalance, that list in every order, taken front first by v1 or back
\* first by v2, fills the buckets of the very degrees the pop left as
\* roots, one tree in each; and so does the list as it is, taken the other
\* version's way.
C22_OrderIrrelevant ==
    (op.name = "pop" /\ panic = "none") =>
        /\ \A xs \in Reorderings(tally.handed1) :
               FillsBuckets(RebalanceV1(xs), DegreeSet(roots1))
        /\ \A xs \in Reorderings(tally.handed2) :
               \/ xs = <<>>
               \/ FillsBuckets(RebalanceV2(xs, len2), DegreeSet(roots2))
        /\ \/ tally.handed1 = <<>>
           \/ FillsBuckets(RebalanceV2(tally.handed1, CountNodes(tally.handed1)),
                           DegreeSet(roots1))
        /\ FillsBuckets(RebalanceV1(tally.handed2), DegreeSet(roots2))

\* a pop handed trees of several degrees to rebalance, which merged some,
\* and another order of the same trees gives other trees of the same degrees
C22_Witness ==
    /\ op.name = "pop"
    /\ panic = "none"
    /\ Cardinality(DegreeSet(tally.handed1)) >= 2
    /\ tally.merges1 >= 2
    /\ \E xs \in Reorderings(tally.handed1) :
           /\ RebalanceV1(xs).roots # RebalanceV1(tally.handed1).roots
           /\ DegreeSet(RebalanceV1(xs).roots) = DegreeSet(roots1)
           /\ RebalanceV2(xs, CountNodes(xs)).roots # RebalanceV1(xs).roots


\* A tree of degree k whose children are, in this order, trees of this kind
\* of the degrees 0, 1, ..., k - 1; it has 2^k nodes
RECURSIVE IsBinomial(_)
IsBinomial(t) ==
    /\ \A i \in 1 .. Degree(t) :
           /\ Degree(t.children[i]) = i - 1
           /\ IsBinomial(t.children[i])
    /\ TreeCountNodes(t) = 2 ^ Degree(t)

AllBinomial(roots) == \A i \in 1 .. Len(roots) : IsBinomial(roots[i])

\* The positions of the 1 bits of n in binary
OneBits(n) == {k \in 0 .. n : (n \div (2 ^ k)) % 2 = 1}

\* C23: in every state reached by push and pop every tree of the forest
\* with degree k has its children of the degrees 0, 1, ..., k - 1 in that
\* order and 2^k nodes; so right after a pop that leaves n > 0 elements the
\* degrees of the roots are the positions of the 1 bits of n in binary, one
\* root for each.
C23_BinomialForest ==
    panic = "none" =>
        /\ AllBinomial(roots1)
        /\ AllBinomial(roots2)
        /\ (op.name = "pop" /\ pushes - pops1 > 0) =>
              /\ DegreeSet(roots1) = OneBits(pushes - pops1)
              /\ Len(roots1) = Cardinality(OneBits(pushes - pops1))
        /\ (op.name = "pop" /\ len2 > 0) =>
              /\ DegreeSet(roots2) = OneBits(len2)
              /\ Len(roots2) = Cardinality(OneBits(len2))

\* a pop has left four elements: one tree of four nodes, with children of
\* the degrees 0 and 1
C23_Witness ==
    /\ op.name = "pop"
    /\ panic = "none"
    /\ pushes - pops1 = 4
    /\ len2 = 4
    /\ DegreeSet(roots1) = {2}
    /\ DegreeSet(roots2) = {2}
    /\ \E i \in 1 .. Len(roots2) :
           /\ Degree(roots2[i]) = 2
           /\ Degree(roots2[i].children[1]) = 0
           /\ Degree(roots2[i].children[2]) = 1

=============================================================================
